---- MODULE Spec2Model ----
(***************************************************************************)
(* Range requests of oak commons (range.ts): the Range / If-Range resolver *)
(* `range`, the single-range extractors `RangeByteTransformStream` and     *)
(* `asLimitedReadableStream`, and the `MultiPartByteRangesStream`.         *)
(*                                                                         *)
(* Strings are sequences of one-character strings.  A JavaScript number is *)
(* a record [nan, v]: parseInt yields NaN on text without digits and every *)
(* comparison with NaN is false.  The byte at offset o of a source is the  *)
(* value o + 1, so that a zero byte is a byte of a freshly allocated       *)
(* Uint8Array that no read has filled.                                     *)
(***************************************************************************)
EXTENDS Integers, Sequences, FiniteSets

VARIABLES
    written,   \* how the Range header was written: [unit, eq, specs, sep]
    request,   \* the Request headers: [range, ifRange], each [isNull, s]
    entity,    \* what range() is given: [size, mtime, hasFileInfo, etag]
    rpc,       \* position of the caller of range(): "call" | "returned"
    result,    \* the RangeResult the call resolved with (or the throw)
    xf,        \* a RangeByteTransformStream and the stream piped through it
    fsFile,    \* a Deno.FsFile: [pos, open, closes]
    lim,       \* the stream made by asLimitedReadableStream
    mp,        \* a MultiPartByteRangesStream and its consumer
    call,      \* a call of responseRange: its arguments and its position
    response,  \* the Response the call returned
    lastIndex, \* ETAG_RE.lastIndex, the state of the module's RegExp object
    calls      \* the calls of range() made so far: <<request, entity, result>>

vars ==
    <<written, request, entity, rpc, result, xf, fsFile, lim, mp, call, response,
      lastIndex, calls>>

----------------------------------------------------------------------------
(* Bounds *)

\* largest number written in a well-formed range-spec
MaxNum == 11
\* largest entity size given to range()
MaxSize == 11
\* longest run of arbitrary characters tried as a range-spec
MaxJunk == 3
\* largest number written in the specs of a header of two range-specs
MaxListNum == 2
\* largest number written in the specs of a header of three range-specs
MaxTripleNum == 1
\* most bytes a source (stream, file, buffer) holds
MaxSrc == 5
\* most bytes the upstream of a stream delivers in one chunk
MaxChunk == 3
\* largest chunkSize option
MaxChunkSize == 3
\* most ranges given to a MultiPartByteRangesStream
MaxRanges == 2
\* most bytes the source of a MultiPartByteRangesStream holds
MaxMultiSrc == 3
\* largest byteOffset of a typed-array view in its buffer
MaxOffset == 1
\* largest body given to responseRange
MaxResponseSrc == 2
\* most ranges given to responseRange
MaxResponseRanges == 2
\* most calls of range() in a row
MaxCalls == 3

----------------------------------------------------------------------------
(* JavaScript values *)

Num(n) == [nan |-> FALSE, v |-> n]
NaN == [nan |-> TRUE, v |-> 0]

\* a < b, a >= b, a > b on numbers: false when either side is NaN
JsLt(a, b) == ~a.nan /\ ~b.nan /\ a.v < b.v
JsGe(a, b) == ~a.nan /\ ~b.nan /\ a.v >= b.v
JsGt(a, b) == ~a.nan /\ ~b.nan /\ a.v > b.v
\* a - b on numbers: NaN when either side is NaN
JsSub(a, b) == IF a.nan \/ b.nan THEN NaN ELSE Num(a.v - b.v)

Null == [isNull |-> TRUE, s |-> <<>>]
Str(s) == [isNull |-> FALSE, s |-> s]

Digits == <<"0", "1", "2", "3", "4", "5", "6", "7", "8", "9">>
IsDigit(c) == \E i \in 1..10 : Digits[i] = c
DigitVal(c) == (CHOOSE i \in 1..10 : Digits[i] = c) - 1
IsWhite(c) == c = " "

\* String(n) for an integer n >= 0
RECURSIVE NumToString(_)
NumToString(n) ==
    IF n < 10 THEN <<Digits[n + 1]>>
    ELSE NumToString(n \div 10) \o <<Digits[(n % 10) + 1]>>

\* the suffix of s from (1-based) index i
From(s, i) == SubSeq(s, i, Len(s))

\* the value of the leading run of digits of s, continuing from acc
RECURSIVE DigitsValue(_, _)
DigitsValue(s, acc) ==
    IF s = <<>> \/ ~IsDigit(Head(s)) THEN acc
    ELSE DigitsValue(Tail(s), acc * 10 + DigitVal(Head(s)))

RECURSIVE TrimStart(_)
TrimStart(s) ==
    IF s # <<>> /\ IsWhite(Head(s)) THEN TrimStart(Tail(s)) ELSE s

\* parseInt reading one digit only
parseInt_FirstDigit(s) ==
    IF s = <<>> \/ ~IsDigit(Head(s)) THEN NaN ELSE Num(DigitVal(Head(s)))

\* parseInt(s, 10): leading white space is skipped, a sign is accepted, the
\* leading digits are the value and whatever follows them is ignored; NaN
\* when there is no digit
parseInt(s) ==
    LET t == TrimStart(s)
        neg == t # <<>> /\ Head(t) = "-"
        signed == t # <<>> /\ Head(t) \in {"-", "+"}
        d == IF signed THEN Tail(t) ELSE t
    IN  IF d = <<>> \/ ~IsDigit(Head(d)) THEN NaN
        ELSE IF neg THEN Num(0 - DigitsValue(d, 0))
        ELSE Num(DigitsValue(d, 0))

\* s.split(c) for a one-character separator c
RECURSIVE SplitChar(_, _, _)
SplitChar(s, c, cur) ==
    IF s = <<>> THEN <<cur>>
    ELSE IF Head(s) = c THEN <<cur>> \o SplitChar(Tail(s), c, <<>>)
    ELSE SplitChar(Tail(s), c, Append(cur, Head(s)))

\* the number of white space characters s starts with
RECURSIVE WhiteRun(_)
WhiteRun(s) ==
    IF s # <<>> /\ IsWhite(Head(s)) THEN 1 + WhiteRun(Tail(s)) ELSE 0

\* a separator that needs no white space after the comma: /\s*,\s*/
SepMatch_BareComma(s) ==
    LET w == WhiteRun(s)
        r == From(s, w + 1)
    IN  IF r # <<>> /\ Head(r) = ","
        THEN w + 1 + WhiteRun(Tail(r))
        ELSE 0

\* the length of the match of /\s*,\s+/ at the start of s, 0 when none
SepMatch(s) ==
    LET w == WhiteRun(s)
        r == From(s, w + 1)
    IN  IF r # <<>> /\ Head(r) = "," /\ WhiteRun(Tail(r)) > 0
        THEN w + 1 + WhiteRun(Tail(r))
        ELSE 0

\* s.split(/\s*,\s+/)
RECURSIVE SplitSep(_, _)
SplitSep(s, cur) ==
    IF s = <<>> THEN <<cur>>
    ELSE IF SepMatch(s) > 0 THEN <<cur>> \o SplitSep(From(s, SepMatch(s) + 1), <<>>)
    ELSE SplitSep(Tail(s), Append(cur, Head(s)))

----------------------------------------------------------------------------
(* range(): the Range / If-Range resolver *)

Satisfiable(rs) == [threw |-> FALSE, ok |-> TRUE, isNull |-> FALSE, ranges |-> rs]
SatisfiableNone == [threw |-> FALSE, ok |-> TRUE, isNull |-> TRUE, ranges |-> <<>>]
Unsatisfiable == [threw |-> FALSE, ok |-> FALSE, isNull |-> TRUE, ranges |-> <<>>]
\* the promise range() returns rejects with a TypeError
Throws == [threw |-> TRUE, ok |-> FALSE, isNull |-> TRUE, ranges |-> <<>>]

\* the length of the match of "[ !#-\x7E\x80-\xFF]+" at the start of s, 0 when
\* none: a quote, one or more characters that are not a quote, a quote
RECURSIVE TagBody(_)
TagBody(s) ==
    IF s = <<>> THEN 0
    ELSE IF Head(s) = "\"" THEN 1
    ELSE IF TagBody(Tail(s)) = 0 THEN 0
    ELSE 1 + TagBody(Tail(s))

QuotedMatch(s) ==
    IF Len(s) >= 3 /\ Head(s) = "\"" /\ s[2] # "\"" /\ TagBody(Tail(s)) > 0
    THEN 1 + TagBody(Tail(s))
    ELSE 0

\* a pattern without the optional W/ prefix
EtagMatchAt_NoWeak(s) == QuotedMatch(s)

\* the length of the match of ETAG_RE at the start of s, 0 when none
EtagMatchAt(s) ==
    IF Len(s) >= 2 /\ s[1] = "W" /\ s[2] = "/" /\ QuotedMatch(From(s, 3)) > 0
    THEN 2 + QuotedMatch(From(s, 3))
    ELSE QuotedMatch(s)

\* ETAG_RE.exec(s): the leftmost match, <<>> when there is none
RECURSIVE ETAG_RE_exec(_)
ETAG_RE_exec(s) ==
    IF s = <<>> THEN <<>>
    ELSE IF EtagMatchAt(s) > 0 THEN SubSeq(s, 1, EtagMatchAt(s))
    ELSE ETAG_RE_exec(Tail(s))

\* ETAG_RE.exec(s) of a RegExp with the g flag: the search starts at lastIndex,
\* which a match moves to its end and a failure resets
RECURSIVE exec_Global(_, _)
exec_Global(s, last) ==
    IF last >= Len(s) THEN [match |-> <<>>, lastIndex |-> 0]
    ELSE IF EtagMatchAt(From(s, last + 1)) > 0
         THEN [match |-> SubSeq(s, last + 1, last + EtagMatchAt(From(s, last + 1))),
               lastIndex |-> last + EtagMatchAt(From(s, last + 1))]
    ELSE exec_Global(s, last + 1)

\* ETAG_RE.exec(s) with the RegExp's lastIndex being last: ETAG_RE has no g or
\* y flag, so the search starts at 0 and lastIndex is left as it is
exec(s, last) == [match |-> ETAG_RE_exec(s), lastIndex |-> last]

AllDigits(s) == s # <<>> /\ \A i \in 1..Len(s) : IsDigit(s[i])

\* a getTime() that gives 0 and not NaN for an invalid date
DateGetTime_InvalidIsZero(value) ==
    IF value # <<>> /\ Head(value) = "@" /\ AllDigits(Tail(value))
    THEN Num(1000 * DigitsValue(Tail(value), 0))
    ELSE Num(0)

\* new Date(value).getTime(): an HTTP date is written here as "@" and the
\* count of seconds, and its time is that count in milliseconds; any other
\* text is an invalid date, whose time is NaN
DateGetTime(value) ==
    IF value # <<>> /\ Head(value) = "@" /\ AllDigits(Tail(value))
    THEN Num(1000 * DigitsValue(Tail(value), 0))
    ELSE NaN

\* the comparison without dropping the milliseconds of mtime
isModified_NoTruncate(value, mtime) == JsLt(DateGetTime(value), Num(mtime))

\* the comparison that also counts a date equal to mtime as modified
isModified_NotAfter(value, mtime) ==
    ~JsGt(DateGetTime(value), Num(mtime - (mtime % 1000)))

isModified(value, mtime) ==
    LET a == DateGetTime(value)
        b == mtime - (mtime % 1000)
    IN  JsLt(a, Num(b))

\* a suffix range-spec starting at size - k
SpecStart_SizeMinusK(item, size) ==
    IF item[1] = <<>> THEN JsSub(Num(size), parseInt(item[2]))
    ELSE parseInt(item[1])

\* an open-ended range-spec ending at size
SpecEnd_OpenIsSize(item, size) ==
    IF item[1] = <<>> THEN Num(size - 1)
    ELSE IF item[2] = <<>> THEN Num(size)
    ELSE parseInt(item[2])

\* the start and end one range-spec `item` = [startStr, endStr] stands for
SpecStart(item, size) ==
    IF item[1] = <<>> THEN JsSub(JsSub(Num(size), parseInt(item[2])), Num(1))
    ELSE parseInt(item[1])

SpecEnd(item, size) ==
    IF item[1] = <<>> \/ item[2] = <<>> THEN Num(size - 1)
    ELSE parseInt(item[2])

\* the test without start > end
OutOfBounds_NoOrder(start, end, size) ==
    \/ JsLt(start, Num(0))
    \/ JsGe(start, Num(size))
    \/ JsLt(end, Num(0))
    \/ JsGe(end, Num(size))

\* the test that rejects a range-spec
OutOfBounds(start, end, size) ==
    \/ JsLt(start, Num(0))
    \/ JsGe(start, Num(size))
    \/ JsLt(end, Num(0))
    \/ JsGe(end, Num(size))
    \/ JsGt(start, end)

\* the loop with each range put in front of those pushed before
RECURSIVE RangeLoop_Prepend(_, _, _)
RangeLoop_Prepend(specs, size, ranges) ==
    IF specs = <<>> THEN Satisfiable(ranges)
    ELSE LET item == SplitChar(Head(specs), "-", <<>>)
         IN  IF Len(item) # 2 THEN Unsatisfiable
             ELSE LET start == SpecStart(item, size)
                      end == SpecEnd(item, size)
                  IN  IF OutOfBounds(start, end, size) THEN Unsatisfiable
                      ELSE RangeLoop_Prepend(Tail(specs), size,
                                <<[start |-> start, end |-> end]>> \o ranges)

\* the loop over the range-specs: specs still to do, ranges pushed so far
RECURSIVE RangeLoop(_, _, _)
RangeLoop(specs, size, ranges) ==
    IF specs = <<>> THEN Satisfiable(ranges)
    ELSE LET item == SplitChar(Head(specs), "-", <<>>)
         IN  IF Len(item) # 2 THEN Unsatisfiable
             ELSE LET start == SpecStart(item, size)
                      end == SpecEnd(item, size)
                  IN  IF OutOfBounds(start, end, size) THEN Unsatisfiable
                      ELSE RangeLoop(Tail(specs), size,
                                     Append(ranges, [start |-> start, end |-> end]))

\* a resolver that rejects a request without a Range header
RangeHeader_AbsentUnsatisfiable(req, ent) ==
    LET value == req.range
        parts == SplitChar(value.s, "=", <<>>)
    IN  IF value.isNull \/ value.s = <<>> THEN Unsatisfiable
        ELSE IF parts[1] # <<"b", "y", "t", "e", "s">> THEN Unsatisfiable
        ELSE IF Len(parts) < 2 THEN Throws
        ELSE RangeLoop(SplitSep(parts[2], <<>>), ent.size, <<>>)

\* the part of range() that reads the Range header
RangeHeader(req, ent) ==
    LET value == req.range
        parts == SplitChar(value.s, "=", <<>>)
    IN  IF value.isNull \/ value.s = <<>> THEN SatisfiableNone
        ELSE IF parts[1] # <<"b", "y", "t", "e", "s">> THEN Unsatisfiable
        ELSE IF Len(parts) < 2 THEN Throws
        ELSE RangeLoop(SplitSep(parts[2], <<>>), ent.size, <<>>)

\* an If-Range test that compares tags also when no fileInfo was passed
IfRangeStale_NoFileInfoTest(req, ent) ==
    LET ifRange == req.ifRange
        match == exec(ifRange.s, lastIndex).match
    IN  IF ifRange.isNull \/ ifRange.s = <<>> THEN FALSE
        ELSE IF match # <<>>
             THEN Head(match) = "W" \/ match # ent.etag
             ELSE ent.mtime.isNull \/ isModified(ifRange.s, ent.mtime.ms)

\* whether the If-Range header makes range() answer with the full entity
IfRangeStale(req, ent) ==
    LET ifRange == req.ifRange
        match == exec(ifRange.s, lastIndex).match
    IN  IF ifRange.isNull \/ ifRange.s = <<>> THEN FALSE
        ELSE IF match # <<>>
             THEN \/ ~ent.hasFileInfo
                  \/ Head(match) = "W"
                  \/ match # ent.etag
             ELSE ent.mtime.isNull \/ isModified(ifRange.s, ent.mtime.ms)

range(req, ent) ==
    IF IfRangeStale(req, ent) THEN SatisfiableNone ELSE RangeHeader(req, ent)

\* ETAG_RE.lastIndex after range(req, ent)
LastIndexAfter(req) ==
    IF req.ifRange.isNull \/ req.ifRange.s = <<>> THEN lastIndex
    ELSE exec(req.ifRange.s, lastIndex).lastIndex

----------------------------------------------------------------------------
(* The requests range() is called with *)

Join(a, b, c) == a \o b \o c

\* how a range-spec is written: `a-b`, `a-`, `-a`, or arbitrary text
RangeSpec(a, b) ==
    [form |-> "range", a |-> a, b |-> b,
     text |-> Join(NumToString(a), <<"-">>, NumToString(b))]
OpenSpec(a) ==
    [form |-> "open", a |-> a, b |-> 0, text |-> NumToString(a) \o <<"-">>]
SuffixSpec(a) ==
    [form |-> "suffix", a |-> a, b |-> 0, text |-> <<"-">> \o NumToString(a)]
JunkSpec(t) == [form |-> "junk", a |-> 0, b |-> 0, text |-> t]

NumSpecs(n) ==
    {RangeSpec(a, b) : a \in 0..n, b \in 0..n}
        \cup {OpenSpec(a) : a \in 0..n} \cup {SuffixSpec(a) : a \in 0..n}

\* text that is a range-spec of the grammar: digits-digits, digits-, -digits
IsWellFormedSpec(t) ==
    LET item == SplitChar(t, "-", <<>>)
    IN  /\ Len(item) = 2
        /\ item[1] = <<>> \/ AllDigits(item[1])
        /\ item[2] = <<>> \/ AllDigits(item[2])
        /\ item[1] # <<>> \/ item[2] # <<>>

JunkChars == {"x", "-", "1"}

RECURSIVE TextsUpTo(_)
TextsUpTo(n) ==
    IF n = 0 THEN {<<>>}
    ELSE TextsUpTo(n - 1)
            \cup {Append(t, c) : t \in {u \in TextsUpTo(n - 1) : Len(u) = n - 1},
                                 c \in JunkChars}

JunkSpecs(n) == {JunkSpec(t) : t \in {u \in TextsUpTo(n) : ~IsWellFormedSpec(u)}}

Separators == {<<",", " ">>, <<",">>, <<" ", ",", " ", " ">>, <<" ", ",">>}

BytesUnit == <<"b", "y", "t", "e", "s">>
OtherUnits == {<<"i", "t", "e", "m", "s">>, <<"B", "y", "t", "e", "s">>,
               <<"b", "y", "t", "e">>}

RECURSIVE JoinSpecs(_, _)
JoinSpecs(specs, sep) ==
    IF specs = <<>> THEN <<>>
    ELSE IF Len(specs) = 1 THEN specs[1].text
    ELSE Join(specs[1].text, sep, JoinSpecs(Tail(specs), sep))

\* the text of the Range header written as w
HeaderText(w) ==
    Join(w.unit, IF w.eq THEN <<"=">> ELSE <<>>, JoinSpecs(w.specs, w.sep))

Written(unit, eq, specs, sep) ==
    [isNull |-> FALSE, unit |-> unit, eq |-> eq, specs |-> specs, sep |-> sep]
NotWritten ==
    [isNull |-> TRUE, unit |-> <<>>, eq |-> FALSE, specs |-> <<>>, sep |-> <<>>]

\* one range-spec after `bytes=`, whatever it is
SingleHeaders ==
    {Written(BytesUnit, TRUE, <<sp>>, <<>>) : sp \in NumSpecs(MaxNum) \cup JunkSpecs(MaxJunk)}

\* another unit, or no `=`
UnitHeaders ==
    {Written(u, TRUE, <<sp>>, <<>>) : u \in OtherUnits, sp \in NumSpecs(1)}
        \cup {Written(u, FALSE, <<>>, <<>>) : u \in OtherUnits \cup {BytesUnit, <<>>}}

ListSpecs(n) == NumSpecs(n) \cup JunkSpecs(1) \cup {JunkSpec(<<"x", "-", "x">>)}

\* two or three range-specs
ListHeaders ==
    {Written(BytesUnit, TRUE, <<a, b>>, sep) :
        a \in ListSpecs(MaxListNum), b \in ListSpecs(MaxListNum), sep \in Separators}
        \cup {Written(BytesUnit, TRUE, <<a, b, c>>, <<",", " ">>) :
                a \in ListSpecs(MaxTripleNum), b \in ListSpecs(MaxTripleNum),
                c \in ListSpecs(MaxTripleNum)}

\* the entity tag calculate() gives the entity's bytes
EntityTag == <<"\"", "a", "\"">>

IfRangeValues ==
    {Null, Str(<<>>), Str(EntityTag), Str(<<"\"", "b", "\"">>),
     Str(<<"W", "/">> \o EntityTag), Str(<<"x">>), Str(<<"W", "/">>)}
        \cup {Str(<<"@">> \o NumToString(t)) : t \in 0..2}

\* modification times, in milliseconds
MTimes == {[isNull |-> TRUE, ms |-> 0]}
            \cup {[isNull |-> FALSE, ms |-> t] : t \in {999, 1000, 1500, 2000}}

FileInfo(size, mtime, hasFileInfo) ==
    [size |-> size, mtime |-> mtime, hasFileInfo |-> hasFileInfo,
     etag |-> EntityTag]

Request(w, ifRange) ==
    [range |-> IF w.isNull THEN Null ELSE Str(HeaderText(w)), ifRange |-> ifRange]

NoResult == [threw |-> FALSE, ok |-> FALSE, isNull |-> FALSE, ranges |-> <<>>]

----------------------------------------------------------------------------
(* Bytes *)

Min(a, b) == IF a < b THEN a ELSE b
Max(a, b) == IF a > b THEN a ELSE b

\* the n bytes of a source from offset pos on
Bytes(pos, n) == [i \in 1..n |-> pos + i]
\* new Uint8Array(n)
Zeros(n) == [i \in 1..n |-> 0]

\* chunk.slice(begin, end) of a typed array, begin and end counted from 0
Slice(chunk, begin, end) ==
    LET len == Len(chunk)
        b == IF begin < 0 THEN Max(len + begin, 0) ELSE Min(begin, len)
        e == IF end < 0 THEN Max(len + end, 0) ELSE Min(end, len)
    IN  SubSeq(chunk, b + 1, e)
\* chunk.slice(begin)
SliceFrom(chunk, begin) == Slice(chunk, begin, Len(chunk))

\* concat(chunks)
RECURSIVE concat(_)
concat(chunks) ==
    IF chunks = <<>> THEN <<>> ELSE Head(chunks) \o concat(Tail(chunks))

----------------------------------------------------------------------------
(* RangeByteTransformStream, fed by an upstream of srcLen bytes *)

NoTransform ==
    [state |-> "none", start |-> 0, end |-> 0, seen |-> 0, read |-> 0,
     out |-> <<>>, srcPos |-> 0, srcLen |-> 0]

NewRangeByteTransformStream(start, end, srcLen) ==
    [state |-> "readable", start |-> start, end |-> end, seen |-> 0,
     read |-> 0, out |-> <<>>, srcPos |-> 0, srcLen |-> srcLen]

\* a transform that never calls controller.terminate()
transform_NoTerminate(t, chunk) ==
    LET length == t.end - t.start
    IN  IF t.seen + Len(chunk) >= t.start
        THEN LET fromStart == t.seen < t.start
                 c1 == IF fromStart THEN SliceFrom(chunk, t.start - t.seen) ELSE chunk
                 seen1 == IF fromStart THEN t.start ELSE t.seen
                 c2 == IF t.read + Len(c1) > length + 1
                       THEN Slice(c1, 0, length - t.read + 1)
                       ELSE c1
             IN  [t EXCEPT !.read = @ + Len(c2),
                           !.seen = seen1 + Len(c2),
                           !.out = Append(@, c2)]
        ELSE [t EXCEPT !.seen = @ + Len(chunk)]

\* transform(chunk, controller) on the stream t
transform(t, chunk) ==
    LET length == t.end - t.start
    IN  IF t.seen + Len(chunk) >= t.start
        THEN LET fromStart == t.seen < t.start
                 c1 == IF fromStart THEN SliceFrom(chunk, t.start - t.seen) ELSE chunk
                 seen1 == IF fromStart THEN t.start ELSE t.seen
                 c2 == IF t.read + Len(c1) > length + 1
                       THEN Slice(c1, 0, length - t.read + 1)
                       ELSE c1
                 read2 == t.read + Len(c2)
             IN  [t EXCEPT !.read = read2,
                           !.seen = seen1 + Len(c2),
                           !.out = Append(@, c2),
                           !.state = IF read2 >= length THEN "terminated" ELSE @]
        ELSE [t EXCEPT !.seen = @ + Len(chunk)]

\* the upstream delivers its next n bytes as one chunk
Transform(n) ==
    /\ xf.state = "readable"
    /\ xf.srcPos + n <= xf.srcLen
    /\ xf' = [transform(xf, Bytes(xf.srcPos, n)) EXCEPT !.srcPos = @ + n]
    /\ UNCHANGED <<lastIndex, calls, call, response, written, request, entity, rpc, result, fsFile, lim, mp>>

\* the upstream closes after its last byte: the readable side closes too
TransformClose ==
    /\ xf.state = "readable"
    /\ xf.srcPos = xf.srcLen
    /\ xf' = [xf EXCEPT !.state = "closed"]
    /\ UNCHANGED <<lastIndex, calls, call, response, written, request, entity, rpc, result, fsFile, lim, mp>>

----------------------------------------------------------------------------
(* Deno.FsFile and asLimitedReadableStream *)

NoFile == [pos |-> 0, open |-> FALSE, size |-> 0, closes |-> 0, seekable |-> TRUE]
OpenFile(size, pos) ==
    [pos |-> pos, open |-> TRUE, size |-> size, closes |-> 0, seekable |-> TRUE]
\* a handle whose seek leaves the position where it is
Unseekable(file) == [file EXCEPT !.seekable = FALSE]

\* file.seek(offset, Deno.SeekMode.Start) / seekSync: the file after it; the
\* position it returns is the new pos, which is offset unless the handle
\* cannot be positioned
seek(file, offset) == IF file.seekable THEN [file EXCEPT !.pos = offset] ELSE file

\* the counts file.read(buffer of n bytes) may return: 0 here stands for null
\* (end of file); a read returns at least one byte otherwise, and may return
\* fewer than n
ReadCounts(file, n) ==
    IF file.pos >= file.size THEN {0} ELSE 1..Min(n, file.size - file.pos)

\* the buffer of n bytes after a read that returned count
ReadInto(file, n, count) == Bytes(file.pos, count) \o Zeros(n - count)

\* a close that leaves the file open
close_Leak(file) == file

\* a pull that takes the end of the file for the end of the range
pull_EofCloses(l, file, count) ==
    LET length == l.end - l.start + 1
        n == Min(length - l.read, l.chunkSize)
    IN  IF count = 0 THEN [l EXCEPT !.state = "closed"]
        ELSE [l EXCEPT !.out = Append(@, ReadInto(file, n, count)),
                       !.read = @ + count,
                       !.state = IF l.read + count >= length THEN "closed" ELSE @]

close(file) == [file EXCEPT !.open = FALSE, !.closes = @ + 1]

NoLimited ==
    [state |-> "none", start |-> 0, end |-> 0, chunkSize |-> 0,
     autoClose |-> FALSE, read |-> 0, out |-> <<>>]

\* asLimitedReadableStream(fsFile, range, options) not yet started
NewLimited(start, end, chunkSize, autoClose) ==
    [state |-> "new", start |-> start, end |-> end, chunkSize |-> chunkSize,
     autoClose |-> autoClose, read |-> 0, out |-> <<>>]

\* a start(controller) that does not seek
LimitedStart_NoSeek ==
    /\ lim.state = "new"
    /\ lim' = [lim EXCEPT !.state = "readable"]
    /\ UNCHANGED <<lastIndex, calls, call, response, written, request, entity, rpc, result, xf, mp, fsFile>>

\* start(controller)
LimitedStart ==
    /\ lim.state = "new"
    /\ fsFile' = seek(fsFile, lim.start)
    /\ lim' = [lim EXCEPT !.state = IF fsFile'.pos # lim.start THEN "errored"
                                     ELSE "readable"]
    /\ UNCHANGED <<lastIndex, calls, call, response, written, request, entity, rpc, result, xf, mp>>

\* the stream l after pull(controller) whose read returned count
pull(l, file, count) ==
    LET length == l.end - l.start + 1
        n == Min(length - l.read, l.chunkSize)
    IN  IF count = 0 THEN [l EXCEPT !.state = "errored"]
        ELSE [l EXCEPT !.out = Append(@, ReadInto(file, n, count)),
                       !.read = @ + count,
                       !.state = IF l.read + count >= length THEN "closed" ELSE @]

LimitedPull ==
    /\ lim.state = "readable"
    /\ \E count \in ReadCounts(fsFile,
                               Min(lim.end - lim.start + 1 - lim.read, lim.chunkSize)) :
        /\ lim' = pull(lim, fsFile, count)
        /\ fsFile' = LET f == [fsFile EXCEPT !.pos = @ + count]
                     IN  IF lim'.state = "closed" /\ lim.autoClose THEN close(f) ELSE f
    /\ UNCHANGED <<lastIndex, calls, call, response, written, request, entity, rpc, result, xf, mp>>

\* the consumer cancels the stream: the underlying source has no cancel(),
\* so the stream only stops pulling
LimitedCancel ==
    /\ lim.state = "readable"
    /\ lim' = [lim EXCEPT !.state = "cancelled"]
    /\ UNCHANGED <<lastIndex, calls, call, response, written, request, entity, rpc, result, xf, mp, fsFile>>

----------------------------------------------------------------------------
(* MultiPartByteRangesStream *)

CRLF == <<"\r", "\n">>
DefaultBoundary ==
    <<"O", "A", "K", "-", "C", "O", "M", "M", "O", "N", "S", "-",
      "B", "O", "U", "N", "D", "A", "R", "Y">>
OctetStream ==
    <<"a", "p", "p", "l", "i", "c", "a", "t", "i", "o", "n", "/",
      "o", "c", "t", "e", "t", "-", "s", "t", "r", "e", "a", "m">>
ContentTypeColon ==
    <<"C", "o", "n", "t", "e", "n", "t", "-", "T", "y", "p", "e", ":", " ">>
ContentRangeColon ==
    <<"C", "o", "n", "t", "e", "n", "t", "-", "R", "a", "n", "g", "e", ":", " ">>

\* `\r\n--${boundary}\r\nContent-Type: ${type}\r\nContent-Range:
\* ${start}-${end}/${size}\r\n\r\n`
Preamble(boundary, type, rng, size) ==
    CRLF \o <<"-", "-">> \o boundary \o CRLF
        \o ContentTypeColon \o type \o CRLF
        \o ContentRangeColon \o NumToString(rng.start) \o <<"-">>
        \o NumToString(rng.end) \o <<"/">> \o NumToString(size)
        \o CRLF \o CRLF

\* `\r\n--${boundary}--\r\n`
Postscript(boundary) == CRLF \o <<"-", "-">> \o boundary \o <<"-", "-">> \o CRLF

\* the ranges left in the order given
SortRanges_Unsorted(ranges) == ranges

\* ranges.sort(({ start: a }, { start: b }) => a - b): a stable sort
RECURSIVE InsertRange(_, _)
InsertRange(r, sorted) ==
    IF sorted = <<>> THEN <<r>>
    ELSE IF r.start < Head(sorted).start THEN <<r>> \o sorted
    ELSE <<Head(sorted)>> \o InsertRange(r, Tail(sorted))

RECURSIVE SortRanges(_)
SortRanges(ranges) ==
    IF ranges = <<>> THEN <<>>
    ELSE InsertRange(ranges[Len(ranges)], SortRanges(SubSeq(ranges, 1, Len(ranges) - 1)))

\* ranges.reduce(...) of the constructor
RECURSIVE ContentLength(_, _, _, _, _)
ContentLength(ranges, boundary, type, size, prev) ==
    IF ranges = <<>> THEN prev
    ELSE ContentLength(Tail(ranges), boundary, type, size,
            prev + Len(Preamble(boundary, type, Head(ranges), size))
                 + (Head(ranges).end - Head(ranges).start) + 1)

None == [has |-> FALSE, bytes |-> <<>>]
Some(b) == [has |-> TRUE, bytes |-> b]

NoRange == [start |-> 0, end |-> 0]

NoMultiPart ==
    [state |-> "none", kind |-> "none", given |-> <<>>, ranges |-> <<>>,
     size |-> 0, autoClose |-> FALSE, boundary |-> <<>>, type |-> <<>>,
     contentLength |-> 0, buffer |-> <<>>, byteOffset |-> 0,
     srcPos |-> 0, srcLen |-> 0, locked |-> FALSE,
     seen |-> 0, previous |-> None,
     pc |-> "idle", range |-> NoRange, read |-> 0, result |-> None,
     res |-> None, parts |-> <<>>, out |-> <<>>]

\* what the constructor stores as #source for a source held in memory: the
\* bytes of the ArrayBuffer, of the Blob, of the encoded string, or of the
\* whole buffer under a typed-array view that begins at byteOffset
SourceBuffer(kind, srcLen, byteOffset) ==
    IF kind \in {"ArrayBuffer", "Blob", "string"} THEN Bytes(0, srcLen)
    ELSE IF kind = "view" THEN [j \in 1..(byteOffset + srcLen) |-> j - byteOffset]
    ELSE <<>>

\* a source of the kind given, len bytes long; byteOffset is where a
\* typed-array view begins in its buffer and type is the type of a Blob
Source(kind, len, byteOffset, type) ==
    [kind |-> kind, len |-> len, byteOffset |-> byteOffset, type |-> type]

\* options {autoClose, type, boundary, chunkSize}; a type or a boundary <<>>
\* is one left undefined
Options(autoClose, type, boundary, chunkSize) ==
    [autoClose |-> autoClose, type |-> type, boundary |-> boundary,
     chunkSize |-> chunkSize]

\* new MultiPartByteRangesStream(source, ranges, size, options)
NewMultiPartByteRangesStream(source, ranges, size, options) ==
    LET t == IF options.type # <<>> THEN options.type
             ELSE IF source.kind = "Blob" /\ source.type # <<>> THEN source.type
             ELSE OctetStream
        boundary == IF options.boundary # <<>> THEN options.boundary
                    ELSE DefaultBoundary
    IN  [NoMultiPart EXCEPT
            !.state = "readable", !.kind = source.kind, !.given = ranges,
            !.ranges = SortRanges(ranges), !.size = size,
            !.autoClose = options.autoClose, !.boundary = boundary,
            !.type = t,
            !.contentLength =
                ContentLength(ranges, boundary, t, size,
                              Len(Postscript(boundary))),
            !.buffer = SourceBuffer(source.kind, source.len, source.byteOffset),
            !.byteOffset = source.byteOffset, !.srcLen = source.len,
            !.locked = (source.kind = "ReadableStream")]

\* processChunk(chunk) of #readRange: #seen, #previous, read after it, and
\* what it returns in res
processChunk(m, chunk) ==
    LET start == m.range.start
        length == m.range.end - m.range.start
    IN  IF m.seen + Len(chunk) >= start
        THEN LET fromStart == m.seen < start
                 c1 == IF fromStart THEN SliceFrom(chunk, start - m.seen) ELSE chunk
                 seen1 == IF fromStart THEN start ELSE m.seen
                 over == m.read + Len(c1) > length + 1
                 c2 == IF over THEN Slice(c1, 0, length - m.read + 1) ELSE c1
             IN  [m EXCEPT
                    !.previous = IF over THEN Some(SliceFrom(c1, length - m.read + 1))
                                 ELSE @,
                    !.read = @ + Len(c2),
                    !.seen = seen1 + Len(c2),
                    !.res = Some(c2)]
        ELSE [m EXCEPT !.seen = @ + Len(chunk), !.res = None]

\* controller.enqueue(concat([preamble, bytes])), the pull being over; in a
\* stream cancelled meanwhile enqueue throws and nothing is emitted
Enqueue(m, bytes) ==
    IF m.state = "cancelled" THEN [m EXCEPT !.pc = "idle"]
    ELSE [m EXCEPT !.out = Append(@, [head |-> Preamble(m.boundary, m.type, m.range, m.size),
                                      bytes |-> bytes]),
                   !.pc = "idle"]

\* a pull that flushes the preamble of the part before it rejects
Fail_FlushPreamble(m) ==
    [m EXCEPT !.state = IF @ = "cancelled" THEN @ ELSE "errored", !.pc = "idle",
              !.out = Append(@, [head |-> Preamble(m.boundary, m.type, m.range, m.size),
                                 bytes |-> <<>>])]

\* the pull rejects: the stream is errored, unless it was cancelled meanwhile
Fail(m) ==
    [m EXCEPT !.state = IF @ = "cancelled" THEN @ ELSE "errored", !.pc = "idle"]

\* #readRange on a stream source once a chunk is processed: read on, or
\* assert(result) and return it
StreamNext(m) ==
    IF m.read < m.range.end - m.range.start THEN [m EXCEPT !.pc = "read"]
    ELSE IF ~m.result.has THEN Fail(m)
    ELSE Enqueue(m, m.result.bytes)

\* #readRange on a stream source up to its first read
StreamBegin(m) ==
    IF m.previous.has
    THEN LET p == processChunk([m EXCEPT !.previous = None], m.previous.bytes)
         IN  StreamNext([p EXCEPT !.result = IF p.res.has THEN p.res ELSE @])
    ELSE StreamNext(m)

\* pull(controller) up to its first await, rng being the range shifted
PullRange(m, rng) ==
    LET m1 == [m EXCEPT !.ranges = Tail(@), !.range = rng, !.read = 0,
                        !.result = None, !.res = None, !.parts = <<>>]
    IN  IF m.kind = "FsFile" THEN [m1 EXCEPT !.pc = "seek"]
        ELSE IF m.kind = "ReadableStream" THEN StreamBegin(m1)
        ELSE IF m.kind = "other" THEN Fail(m1)
        ELSE Enqueue(m1, Slice(m.buffer, rng.start, rng.end + 1))

\* pull(controller) when no range is left
PullEnd(m) ==
    [m EXCEPT !.out = Append(@, [head |-> Postscript(m.boundary), bytes |-> <<>>]),
              !.state = "closed",
              !.locked = FALSE]

\* a pull that closes the file after the postscript whatever autoClose is
MultiPartPull_CloseAlways ==
    /\ mp.state = "readable"
    /\ mp.pc = "idle"
    /\ IF mp.ranges = <<>>
       THEN /\ mp' = PullEnd(mp)
            /\ fsFile' = IF mp.kind = "FsFile" THEN close(fsFile) ELSE fsFile
       ELSE /\ mp' = PullRange(mp, Head(mp.ranges))
            /\ UNCHANGED fsFile
    /\ UNCHANGED <<lastIndex, calls, call, response, written, request, entity, rpc, result, xf, lim>>

MultiPartPull ==
    /\ mp.state = "readable"
    /\ mp.pc = "idle"
    /\ IF mp.ranges = <<>>
       THEN /\ mp' = PullEnd(mp)
            /\ fsFile' = IF mp.autoClose /\ mp.kind = "FsFile" THEN close(fsFile)
                         ELSE fsFile
       ELSE /\ mp' = PullRange(mp, Head(mp.ranges))
            /\ UNCHANGED fsFile
    /\ UNCHANGED <<lastIndex, calls, call, response, written, request, entity, rpc, result, xf, lim>>

\* the consumer cancels the stream: the underlying source has no cancel(),
\* so no pull is started any more; a pull under way goes on to its end
MultiPartCancel ==
    /\ mp.state = "readable"
    /\ mp' = [mp EXCEPT !.state = "cancelled"]
    /\ UNCHANGED <<lastIndex, calls, call, response, written, request, entity, rpc, result, xf, lim, fsFile>>

\* readRange(file, range): await file.seek(start, Deno.SeekMode.Start)
MultiPartSeek ==
    /\ mp.state \in {"readable", "cancelled"}
    /\ mp.pc = "seek"
    /\ fsFile' = seek(fsFile, mp.range.start)
    /\ mp' = IF fsFile'.pos # mp.range.start THEN Fail(mp) ELSE [mp EXCEPT !.pc = "read"]
    /\ UNCHANGED <<lastIndex, calls, call, response, written, request, entity, rpc, result, xf, lim>>

\* readRange(file, range) after a read of its loop that returned count
fileRead(m, file, count) ==
    LET length == m.range.end - m.range.start + 1
        chunk == ReadInto(file, length - m.read, count)
        parts == Append(m.parts, chunk)
    IN  IF count = 0 THEN Fail(m)
        ELSE IF m.read + count < length
             THEN [m EXCEPT !.parts = parts, !.read = @ + count]
             ELSE Enqueue([m EXCEPT !.parts = parts, !.read = @ + count],
                          concat(parts))

MultiPartFileRead ==
    /\ mp.state \in {"readable", "cancelled"}
    /\ mp.pc = "read"
    /\ mp.kind = "FsFile"
    /\ \E count \in ReadCounts(fsFile, mp.range.end - mp.range.start + 1 - mp.read) :
        /\ mp' = fileRead(mp, fsFile, count)
        /\ fsFile' = [fsFile EXCEPT !.pos = @ + count]
    /\ UNCHANGED <<lastIndex, calls, call, response, written, request, entity, rpc, result, xf, lim>>

\* #readRange after this.#source.read() gave a chunk
streamRead(m, chunk) ==
    LET p == processChunk(m, chunk)
    IN  StreamNext([p EXCEPT !.result = IF ~p.res.has THEN @
                                        ELSE IF @.has THEN Some(@.bytes \o p.res.bytes)
                                        ELSE p.res])

\* this.#source.read() resolves with the next n bytes of the source
MultiPartStreamRead(n) ==
    /\ mp.state \in {"readable", "cancelled"}
    /\ mp.pc = "read"
    /\ mp.kind = "ReadableStream"
    /\ mp.srcPos + n <= mp.srcLen
    /\ mp' = [streamRead(mp, Bytes(mp.srcPos, n)) EXCEPT !.srcPos = @ + n]
    /\ UNCHANGED <<lastIndex, calls, call, response, written, request, entity, rpc, result, xf, lim, fsFile>>

\* this.#source.read() resolves with done: the source has ended
MultiPartStreamDone ==
    /\ mp.state \in {"readable", "cancelled"}
    /\ mp.pc = "read"
    /\ mp.kind = "ReadableStream"
    /\ mp.srcPos = mp.srcLen
    /\ mp' = Fail(mp)
    /\ UNCHANGED <<lastIndex, calls, call, response, written, request, entity, rpc, result, xf, lim, fsFile>>

----------------------------------------------------------------------------
(* responseRange and the headers of its Response *)

HeaderNames == {"accept-ranges", "content-range", "content-length", "content-type"}

\* new Headers() without any header
NoHeaders == [n \in HeaderNames |-> Null]

\* headers.set(name, value)
HeadersSet(headers, name, value) == [headers EXCEPT ![name] = Str(value)]

\* headers.has(name)
HeadersHas(headers, name) == ~headers[name].isNull

\* `bytes ${start}-${end}/${size}`
ContentRangeValue(rng, size) ==
    BytesUnit \o <<" ">> \o NumToString(rng.start) \o <<"-">>
        \o NumToString(rng.end) \o <<"/">> \o NumToString(size)

\* contentRange that sets the type whatever the headers hold
contentRange_TypeAlways(headers, rng, size, type) ==
    LET h == HeadersSet(HeadersSet(HeadersSet(headers,
                "accept-ranges", BytesUnit),
                "content-range", ContentRangeValue(rng, size)),
                "content-length", NumToString(rng.end - rng.start + 1))
    IN  IF type # <<>> THEN HeadersSet(h, "content-type", type) ELSE h

\* contentRange(headers, range, size, type); a type <<>> is undefined or ""
contentRange(headers, rng, size, type) ==
    LET h == HeadersSet(HeadersSet(HeadersSet(headers,
                "accept-ranges", BytesUnit),
                "content-range", ContentRangeValue(rng, size)),
                "content-length", NumToString(rng.end - rng.start + 1))
    IN  IF type # <<>> /\ ~HeadersHas(h, "content-type")
        THEN HeadersSet(h, "content-type", type)
        ELSE h

MultiPartByteRangesType ==
    <<"m", "u", "l", "t", "i", "p", "a", "r", "t", "/", "b", "y", "t",
      "e", "r", "a", "n", "g", "e", "s", ";", " ", "b", "o", "u", "n",
      "d", "a", "r", "y", "=">>

\* multiPartByteRanges(headers, init)
multiPartByteRanges(headers, init) ==
    HeadersSet(HeadersSet(headers,
        "content-type", MultiPartByteRangesType \o init.boundary),
        "content-length", NumToString(init.contentLength))

\* a ResponseInit {status, statusText, headers}; status 0 and statusText ""
\* are ones left undefined
ResponseInit(status, statusText, contentType) ==
    [status |-> status, statusText |-> statusText,
     headers |-> [NoHeaders EXCEPT !["content-type"] = contentType]]

\* the body of a Response: a stream, bytes held in memory, or a Blob
NoBody == [kind |-> "none", type |-> <<>>, bytes |-> <<>>]
StreamBody == [kind |-> "stream", type |-> <<>>, bytes |-> <<>>]
BytesBody(b) == [kind |-> "bytes", type |-> <<>>, bytes |-> b]
\* blob.slice(start, end): the new Blob has no type
BlobSlice(b, start, end) == [kind |-> "Blob", type |-> <<>>, bytes |-> Slice(b, start, end)]

NoResponse ==
    [status |-> 0, statusText |-> "", headers |-> NoHeaders, body |-> NoBody]

\* new Response(body, init): a body that has a type gives the response its
\* Content-Type when init gave none
NewResponse(body, init) ==
    [status |-> init.status, statusText |-> init.statusText,
     headers |-> IF body.type # <<>> /\ ~HeadersHas(init.headers, "content-type")
                 THEN HeadersSet(init.headers, "content-type", body.type)
                 ELSE init.headers,
     body |-> body]

\* {...init, status: 206, statusText: "Partial Content"}
PartialContent(init) ==
    [init EXCEPT !.status = 206, !.statusText = "Partial Content"]

NoCall ==
    [pc |-> "none", body |-> Source("none", 0, 0, <<>>), size |-> 0,
     ranges |-> <<>>, init |-> ResponseInit(0, "", Null),
     options |-> Options(TRUE, <<>>, <<>>, 0)]

NoResponseCall == call = NoCall /\ response = NoResponse

\* the module as loaded, range() not called yet
NoCalls == lastIndex = 0 /\ calls = <<>>

\* the type the single-range branch of responseRange passes to contentRange
SingleType(body, options) ==
    IF body.kind = "Blob" THEN body.type
    ELSE IF options.type # <<>> THEN options.type
    ELSE OctetStream

\* the body the single-range branch of responseRange gives the Response
SingleBody(body, rng) ==
    IF body.kind \in {"FsFile", "ReadableStream"} THEN StreamBody
    ELSE IF body.kind = "Blob"
         THEN BlobSlice(Bytes(0, body.len), rng.start, rng.end + 1)
    ELSE BytesBody(Slice(SourceBuffer(body.kind, body.len, body.byteOffset),
                         rng.start, rng.end + 1))

\* responseRange(body, size, ranges, init, options) with one range
ResponseSingle ==
    /\ call.pc = "call"
    /\ Len(call.ranges) = 1
    /\ LET rng == call.ranges[1]
           res == NewResponse(SingleBody(call.body, rng), PartialContent(call.init))
       IN  IF call.body.kind = "other"
           THEN /\ call' = [call EXCEPT !.pc = "threw"]
                /\ UNCHANGED <<response, lim, xf>>
           ELSE /\ call' = [call EXCEPT !.pc = "returned"]
                /\ response' =
                        [res EXCEPT !.headers =
                            contentRange(@, rng, call.size,
                                         SingleType(call.body, call.options))]
                /\ lim' = IF call.body.kind = "FsFile"
                          THEN NewLimited(rng.start, rng.end,
                                          call.options.chunkSize,
                                          call.options.autoClose)
                          ELSE lim
                /\ xf' = IF call.body.kind = "ReadableStream"
                         THEN NewRangeByteTransformStream(rng.start, rng.end,
                                                          call.body.len)
                         ELSE xf
    /\ UNCHANGED <<lastIndex, calls, written, request, entity, rpc, result, fsFile, mp>>

\* responseRange(body, size, ranges, init, options) with several ranges
ResponseMulti ==
    /\ call.pc = "call"
    /\ Len(call.ranges) > 1
    /\ mp' = NewMultiPartByteRangesStream(call.body, call.ranges, call.size,
                                          call.options)
    /\ response' =
            [NewResponse(StreamBody, PartialContent(call.init)) EXCEPT
                !.headers = multiPartByteRanges(@, mp')]
    /\ call' = [call EXCEPT !.pc = "returned"]
    /\ UNCHANGED <<lastIndex, calls, written, request, entity, rpc, result, fsFile, lim, xf>>

\* a responseRange that makes its stream before it looks at the ranges
ResponseNoRange_AfterStream ==
    /\ call.pc = "call"
    /\ call.ranges = <<>>
    /\ call' = [call EXCEPT !.pc = "threw"]
    /\ mp' = NewMultiPartByteRangesStream(call.body, call.ranges, call.size,
                                          call.options)
    /\ UNCHANGED <<lastIndex, calls, response, written, request, entity, rpc, result, fsFile, lim, xf>>

\* responseRange(body, size, [], init, options): throws a RangeError
ResponseNoRange ==
    /\ call.pc = "call"
    /\ call.ranges = <<>>
    /\ call' = [call EXCEPT !.pc = "threw"]
    /\ UNCHANGED <<lastIndex, calls, response, written, request, entity, rpc, result, fsFile, lim, xf, mp>>

ResponseRange == ResponseNoRange \/ ResponseSingle \/ ResponseMulti

----------------------------------------------------------------------------
(* Specifications *)

NoMTime == [isNull |-> TRUE, ms |-> 0]

\* the headers tried together with an If-Range header
IfRangeHeaders ==
    {NotWritten, Written(BytesUnit, TRUE, <<RangeSpec(0, 1)>>, <<>>),
     Written(BytesUnit, TRUE, <<RangeSpec(1, 0)>>, <<>>),
     Written(<<"i", "t", "e", "m", "s">>, TRUE, <<RangeSpec(0, 1)>>, <<>>),
     Written(BytesUnit, TRUE, <<RangeSpec(1, 1), RangeSpec(0, 0)>>, <<",", " ">>),
     Written(BytesUnit, FALSE, <<>>, <<>>)}

RangeInputs ==
    {<<w, Null, FileInfo(size, NoMTime, TRUE)>> :
        w \in SingleHeaders \cup UnitHeaders \cup {NotWritten},
        size \in 0..MaxSize}
    \cup {<<w, Null, FileInfo(size, NoMTime, TRUE)>> :
            w \in ListHeaders, size \in 0..(MaxListNum + 1)}
    \cup {<<w, ifRange, FileInfo(2, mtime, f)>> :
            w \in IfRangeHeaders, ifRange \in IfRangeValues, mtime \in MTimes,
            f \in BOOLEAN}

InitRange ==
    /\ \E in \in RangeInputs :
        /\ written = in[1]
        /\ request = Request(in[1], in[2])
        /\ entity = in[3]
    /\ rpc = "call"
    /\ result = NoResult
    /\ xf = NoTransform
    /\ fsFile = NoFile
    /\ lim = NoLimited
    /\ mp = NoMultiPart
    /\ NoResponseCall
    /\ NoCalls

\* await range(request, entity, fileInfo)
Range ==
    /\ rpc = "call"
    /\ result' = range(request, entity)
    /\ lastIndex' = LastIndexAfter(request)
    /\ calls' = Append(calls, <<request, entity, result'>>)
    /\ rpc' = "returned"
    /\ UNCHANGED <<call, response, written, request, entity, xf, fsFile, lim, mp>>

NextRange == Range

SpecRange == InitRange /\ [][NextRange]_vars

\* the requests and entities of repeated calls of range()
RepeatInputs ==
    {<<w, ifRange, FileInfo(2, mtime, TRUE)>> :
        w \in {NotWritten, Written(BytesUnit, TRUE, <<RangeSpec(0, 1)>>, <<>>),
               Written(BytesUnit, FALSE, <<>>, <<>>)},
        ifRange \in {Null, Str(EntityTag), Str(<<"x">> \o EntityTag),
                     Str(<<"@", "1">>)},
        mtime \in {NoMTime, [isNull |-> FALSE, ms |-> 1000]}}

InitRepeat == InitRange /\ <<written, request.ifRange, entity>> \in RepeatInputs

\* the caller makes its next request
NextRequest ==
    /\ rpc = "returned"
    /\ Len(calls) < MaxCalls
    /\ \E in \in RepeatInputs :
        /\ written' = in[1]
        /\ request' = Request(in[1], in[2])
        /\ entity' = in[3]
    /\ rpc' = "call"
    /\ UNCHANGED <<lastIndex, calls, call, response, result, xf, fsFile, lim, mp>>

NextRepeat == Range \/ NextRequest

SpecRepeat == InitRepeat /\ [][NextRepeat]_vars

NoRequest ==
    /\ written = NotWritten
    /\ request = Request(NotWritten, Null)
    /\ entity = FileInfo(0, NoMTime, FALSE)
    /\ rpc = "none"
    /\ result = NoResult

\* the valid ranges of an entity of size bytes
ByteRanges(size) ==
    {[start |-> a, end |-> b] : a \in 0..(size - 1), b \in 0..(size - 1)} \ 
        {r \in [start : 0..(size - 1), end : 0..(size - 1)] : r.start > r.end}

InitTransform ==
    /\ NoRequest
    /\ NoResponseCall
    /\ NoCalls
    /\ \E srcLen \in 0..MaxSrc, r \in ByteRanges(MaxSrc) :
        xf = NewRangeByteTransformStream(r.start, r.end, srcLen)
    /\ fsFile = NoFile
    /\ lim = NoLimited
    /\ mp = NoMultiPart

NextTransform == (\E n \in 1..MaxChunk : Transform(n)) \/ TransformClose

SpecTransform == InitTransform /\ [][NextTransform]_vars

\* the handles given for an entity of size bytes: positioned at the start or
\* at the end, one that cannot be positioned, and one over a file that has
\* lost its last byte since its size was taken
Files(size) ==
    {OpenFile(size, 0), OpenFile(size, size), Unseekable(OpenFile(size, 0)),
     OpenFile(size - 1, 0)}

InitLimited ==
    /\ NoRequest
    /\ NoResponseCall
    /\ NoCalls
    /\ xf = NoTransform
    /\ \E size \in 1..MaxSrc : \E r \in ByteRanges(size) :
        \E chunkSize \in 1..MaxChunkSize, autoClose \in BOOLEAN, file \in Files(size) :
            /\ fsFile = file
            /\ lim = NewLimited(r.start, r.end, chunkSize, autoClose)
    /\ mp = NoMultiPart

NextLimited == LimitedStart \/ LimitedPull

SpecLimited == InitLimited /\ [][NextLimited]_vars

RECURSIVE SeqsUpTo(_, _)
SeqsUpTo(S, n) ==
    IF n = 0 THEN {<<>>}
    ELSE SeqsUpTo(S, n - 1)
            \cup {Append(q, x) : q \in {u \in SeqsUpTo(S, n - 1) : Len(u) = n - 1},
                                 x \in S}

SourceKinds == {"FsFile", "ReadableStream", "ArrayBuffer", "view", "Blob", "string"}

BlobType == <<"t", "/", "b">>
TypeOption == <<"t", "/", "o">>

InitMulti ==
    /\ NoRequest
    /\ NoResponseCall
    /\ NoCalls
    /\ xf = NoTransform
    /\ lim = NoLimited
    /\ \E size \in 1..MaxMultiSrc, kind \in SourceKinds :
        \E ranges \in SeqsUpTo(ByteRanges(size), MaxRanges) \ {<<>>} :
        \E autoClose \in IF kind = "FsFile" THEN BOOLEAN ELSE {TRUE},
           type \in IF kind = "Blob" THEN {<<>>, TypeOption} ELSE {<<>>},
           blobType \in IF kind = "Blob" THEN {<<>>, BlobType} ELSE {<<>>},
           byteOffset \in IF kind = "view" THEN 0..MaxOffset ELSE {0},
           len \in IF kind = "ReadableStream" THEN {size - 1, size} ELSE {size},
           file \in IF kind = "FsFile" THEN Files(size) ELSE {NoFile} :
            /\ mp = NewMultiPartByteRangesStream(
                        Source(kind, len, byteOffset, blobType), ranges, size,
                        Options(autoClose, type, <<>>, MaxChunkSize))
            /\ fsFile = file

NextMulti ==
    \/ MultiPartPull
    \/ MultiPartSeek
    \/ MultiPartFileRead
    \/ \E n \in 1..MaxChunk : MultiPartStreamRead(n)
    \/ MultiPartStreamDone

SpecMulti == InitMulti /\ [][NextMulti]_vars

\* asLimitedReadableStream(file, r) and new MultiPartByteRangesStream(file,
\* [q], size, {autoClose: false}) made over one Deno.FsFile for two
\* different ranges, the file being left open by both
InitShared ==
    /\ NoRequest
    /\ NoResponseCall
    /\ NoCalls
    /\ xf = NoTransform
    /\ \E size \in 1..MaxMultiSrc :
        \E r \in ByteRanges(size), q \in ByteRanges(size), chunkSize \in 1..MaxChunkSize :
            /\ r # q
            /\ fsFile = OpenFile(size, 0)
            /\ lim = NewLimited(r.start, r.end, chunkSize, FALSE)
            /\ mp = NewMultiPartByteRangesStream(
                        Source("FsFile", size, 0, <<>>), <<q>>, size,
                        Options(FALSE, <<>>, <<>>, chunkSize))

\* the pulls of the two streams in any interleaving
NextShared ==
    \/ LimitedStart
    \/ LimitedPull
    \/ MultiPartPull
    \/ MultiPartSeek
    \/ MultiPartFileRead

SpecShared == InitShared /\ [][NextShared]_vars

ImagePng == <<"i", "/", "p">>
OtherBoundary == <<"B">>

\* the inits responseRange is called with: none, one with a status, one with
\* a status, a status text and a Content-Type
ResponseInits ==
    {ResponseInit(0, "", Null), ResponseInit(404, "", Null),
     ResponseInit(200, "OK", Str(ImagePng))}

BodyKinds == SourceKinds \cup {"other"}

InitResponse ==
    /\ NoRequest
    /\ NoCalls
    /\ xf = NoTransform
    /\ lim = NoLimited
    /\ mp = NoMultiPart
    /\ response = NoResponse
    /\ \E size \in 1..MaxResponseSrc, kind \in BodyKinds :
        \E ranges \in SeqsUpTo(ByteRanges(size), MaxResponseRanges) :
        \E init \in ResponseInits,
           autoClose \in IF kind = "FsFile" THEN BOOLEAN ELSE {TRUE},
           type \in {<<>>, TypeOption},
           boundary \in IF kind = "ArrayBuffer" THEN {<<>>, OtherBoundary} ELSE {<<>>},
           blobType \in IF kind = "Blob" THEN {<<>>, BlobType} ELSE {<<>>},
           byteOffset \in IF kind = "view" THEN 0..MaxOffset ELSE {0},
           len \in IF kind = "ReadableStream" THEN {size - 1, size} ELSE {size},
           file \in IF kind = "FsFile" THEN Files(size) ELSE {NoFile} :
            /\ call = [pc |-> "call",
                       body |-> Source(kind, len, byteOffset, blobType),
                       size |-> size, ranges |-> ranges, init |-> init,
                       options |-> Options(autoClose, type, boundary, MaxChunkSize)]
            /\ fsFile = file

NextResponse ==
    \/ ResponseRange
    \/ NextLimited
    \/ NextTransform
    \/ NextMulti
    \/ LimitedCancel
    \/ MultiPartCancel

SpecResponse == InitResponse /\ [][NextResponse]_vars

----------------------------------------------------------------------------
(* Properties *)

\* the bytes of a source at offsets start..end
SourceBytes(start, end) == Bytes(start, end - start + 1)

\* the byte length of the chunks a MultiPartByteRangesStream enqueued
RECURSIVE EmittedLength(_)
EmittedLength(out) ==
    IF out = <<>> THEN 0
    ELSE Len(Head(out).head) + Len(Head(out).bytes) + EmittedLength(Tail(out))

\* C1: once a MultiPartByteRangesStream over any kind of source has been
\* drained to its close, the bytes it emitted number exactly contentLength.
C1_ContentLengthIsDrainedLength ==
    mp.state = "closed" => EmittedLength(mp.out) = mp.contentLength

\* C2: when a RangeByteTransformStream fed by a source of at least end+1
\* bytes has ended (terminated, or closed with its upstream), what it emitted
\* is exactly the source bytes start..end.
C2_TransformEmitsRange ==
    xf.state \in {"terminated", "closed"} /\ xf.srcLen >= xf.end + 1
        => concat(xf.out) = SourceBytes(xf.start, xf.end)

\* C3: when the stream of asLimitedReadableStream has closed, its chunks are
\* no larger than chunkSize and together are exactly the file bytes start..end.
C3_LimitedEmitsRange ==
    lim.state = "closed"
        => /\ \A i \in 1..Len(lim.out) : Len(lim.out[i]) <= lim.chunkSize
           /\ concat(lim.out) = SourceBytes(lim.start, lim.end)

\* range() has returned for a request with no If-Range and a Range header
\* that is `bytes=` and a single range-spec of the form given
Single(form) ==
    /\ rpc = "returned"
    /\ request.ifRange.isNull
    /\ ~written.isNull
    /\ written.unit = BytesUnit
    /\ written.eq
    /\ Len(written.specs) = 1
    /\ written.specs[1].form = form

ByteRange(start, end) == [start |-> Num(start), end |-> Num(end)]

\* C4: `Range: bytes={start}-{end}` with 0 <= start <= end < size and no
\* If-Range resolves to {ok: true, ranges: [{start, end}]}.
C4_ExplicitRange ==
    Single("range")
        => LET start == written.specs[1].a
               end == written.specs[1].b
           IN  start <= end /\ end < entity.size
                => result = Satisfiable(<<ByteRange(start, end)>>)

C4_Witness ==
    /\ Single("range")
    /\ written.specs[1] = RangeSpec(3, 10)
    /\ entity.size = 11
    /\ result = Satisfiable(<<ByteRange(3, 10)>>)

\* C5: `Range: bytes=-{k}` with 0 < k <= size resolves to the last k bytes,
\* {ok: true, ranges: [{start: size-k, end: size-1}]}.
C5_SuffixIsLastK ==
    Single("suffix")
        => LET k == written.specs[1].a
           IN  0 < k /\ k <= entity.size
                => result = Satisfiable(<<ByteRange(entity.size - k, entity.size - 1)>>)

\* C6: `Range: bytes=-{k}` with 0 <= k < size resolves to the single range
\* {start: size-k-1, end: size-1}.
C6_SuffixAsTested ==
    Single("suffix")
        => LET k == written.specs[1].a
           IN  k < entity.size
                => result = Satisfiable(<<ByteRange(entity.size - k - 1, entity.size - 1)>>)

C6_Witness ==
    /\ Single("suffix")
    /\ written.specs[1] = SuffixSpec(4)
    /\ entity.size = 11
    /\ result = Satisfiable(<<ByteRange(6, 10)>>)

\* C7: `Range: bytes={k}-` with 0 <= k < size resolves to
\* {ok: true, ranges: [{start: k, end: size-1}]}.
C7_OpenEnded ==
    Single("open")
        => LET k == written.specs[1].a
           IN  k < entity.size
                => result = Satisfiable(<<ByteRange(k, entity.size - 1)>>)

C7_Witness ==
    /\ Single("open")
    /\ written.specs[1] = OpenSpec(10)
    /\ entity.size = 11
    /\ result = Satisfiable(<<ByteRange(10, 10)>>)

\* the range-spec sp is written start-end with start > end or end >= size
Illogical(sp, size) == sp.form = "range" /\ (sp.a > sp.b \/ sp.b >= size)

\* the separator, a comma with or without white space around it, has white
\* space after the comma
Splits(sep) == sep # <<>> /\ IsWhite(sep[Len(sep)])

\* the range-specs of the header are those the resolver separates: they are
\* written with a comma and white space between them, or all are range-specs
\* of the grammar
Separated(w) ==
    \/ Len(w.specs) <= 1
    \/ Splits(w.sep)
    \/ \A i \in 1..Len(w.specs) : w.specs[i].form # "junk"

Invalid(sp, size) ==
    \/ sp.form = "junk"
    \/ Illogical(sp, size)
    \/ sp.form \in {"range", "open"} /\ sp.a >= size
    \/ sp.form = "suffix" /\ (sp.a > size \/ size = 0)

\* C9: a Range header of several range-specs separated by a comma and white
\* space, one of which is invalid, resolves to {ok: false, ranges: null}.
C9_OneInvalidSpecFailsAll ==
    (/\ rpc = "returned"
     /\ request.ifRange.isNull
     /\ ~written.isNull
     /\ written.unit = BytesUnit
     /\ written.eq
     /\ Len(written.specs) >= 2
     /\ Splits(written.sep)
     /\ \E i \in 1..Len(written.specs) : Invalid(written.specs[i], entity.size))
        => result = Unsatisfiable

\* C10: a Range header `bytes=` followed by one range-spec that cannot be
\* parsed resolves to {ok: false, ranges: null}.
C10_UnparsableSpecFails ==
    Single("junk") => result = Unsatisfiable

\* C11: for every Range and If-Range value, a Range value without `=` such as
\* `bytes` included, range() returns a RangeResult and never throws or rejects.
C11_NeverThrows ==
    rpc = "returned" => ~result.threw

\* C12: a request without a Range header resolves to {ok: true, ranges: null}
\* for every entity and every If-Range value, present or absent.
C12_NoRangeHeader ==
    rpc = "returned" /\ written.isNull => result = SatisfiableNone

C12_Witness ==
    /\ rpc = "returned"
    /\ written.isNull
    /\ request.ifRange = Str(<<"@", "2">>)
    /\ entity.mtime = [isNull |-> FALSE, ms |-> 1000]
    /\ result = SatisfiableNone

\* range() has returned for a request whose If-Range is an HTTP date
IfRangeDate ==
    /\ rpc = "returned"
    /\ ~request.ifRange.isNull
    /\ request.ifRange.s # <<>>
    /\ Head(request.ifRange.s) = "@"

\* the time of the If-Range date, in milliseconds
IfRangeTime == 1000 * DigitsValue(Tail(request.ifRange.s), 0)

\* the modification time of the entity at one-second precision
MTimeSeconds == entity.mtime.ms - (entity.mtime.ms % 1000)

\* C13 as stated: with an HTTP date in If-Range, the Range header is
\* evaluated when the entity has no modification time or the date is strictly
\* before it (at one-second precision), and the result is {ok: true, ranges:
\* null} when the date is at or after it.
C13_DateBeforeMTimeEvaluates ==
    IfRangeDate
        => IF entity.mtime.isNull \/ IfRangeTime < MTimeSeconds
           THEN result = RangeHeader(request, entity)
           ELSE result = SatisfiableNone

\* C13 amended: with an HTTP date in If-Range, the result is {ok: true,
\* ranges: null} when the entity has no modification time or the date is
\* strictly before it (at one-second precision), and the Range header is
\* evaluated when the date is at or after it.
C13_DateAtOrAfterMTimeEvaluates ==
    IfRangeDate
        => IF entity.mtime.isNull \/ IfRangeTime < MTimeSeconds
           THEN result = SatisfiableNone
           ELSE result = RangeHeader(request, entity)

C13_Witness ==
    /\ IfRangeDate
    /\ request.ifRange = Str(<<"@", "1">>)
    /\ entity.mtime = [isNull |-> FALSE, ms |-> 1500]
    /\ written.specs = <<RangeSpec(0, 1)>>
    /\ written.unit = BytesUnit
    /\ result = Satisfiable(<<ByteRange(0, 1)>>)

\* the range a range-spec of the grammar stands for in an entity of size bytes
ResolvedStart(sp, size) ==
    IF sp.form = "suffix" THEN size - sp.a - 1 ELSE sp.a

ResolvedEnd(sp, size) ==
    IF sp.form = "range" THEN sp.b ELSE size - 1

ValidSpec(sp, size) ==
    /\ sp.form # "junk"
    /\ 0 <= ResolvedStart(sp, size)
    /\ ResolvedStart(sp, size) <= ResolvedEnd(sp, size)
    /\ ResolvedEnd(sp, size) < size

\* the Range header is `bytes=` and range-specs that are all valid, separated
\* by a comma and white space
ValidRange ==
    /\ ~written.isNull
    /\ written.unit = BytesUnit
    /\ written.eq
    /\ written.specs # <<>>
    /\ Splits(written.sep)
    /\ \A i \in 1..Len(written.specs) : ValidSpec(written.specs[i], entity.size)

\* one ByteRange for each range-spec of the header, in the order written
ParsedRanges ==
    [i \in 1..Len(written.specs) |->
        ByteRange(ResolvedStart(written.specs[i], entity.size),
                  ResolvedEnd(written.specs[i], entity.size))]

\* C14: with an HTTP date in If-Range and a valid Range header, range() returns
\* the parsed ranges when the date is equal to or later than the entity's
\* mtime truncated to whole seconds, and {ok: true, ranges: null} when the
\* date is earlier or the mtime is null.
C14_DateWithValidRange ==
    IfRangeDate /\ ValidRange
        => IF ~entity.mtime.isNull /\ IfRangeTime >= MTimeSeconds
           THEN result = Satisfiable(ParsedRanges)
           ELSE result = SatisfiableNone

C14_Witness ==
    /\ IfRangeDate
    /\ ValidRange
    /\ request.ifRange = Str(<<"@", "2">>)
    /\ entity.mtime = [isNull |-> FALSE, ms |-> 2000]
    /\ Len(written.specs) = 2
    /\ result = Satisfiable(<<ByteRange(1, 1), ByteRange(0, 0)>>)

\* C15: a weak entity tag (prefixed W/) in If-Range resolves to {ok: true,
\* ranges: null} for every Range header value; the Range header is not
\* evaluated.
C15_WeakTagIsStale ==
    (/\ rpc = "returned"
     /\ ~request.ifRange.isNull
     /\ Len(request.ifRange.s) > 2
     /\ SubSeq(request.ifRange.s, 1, 2) = <<"W", "/">>)
        => result = SatisfiableNone

C15_Witness ==
    /\ rpc = "returned"
    /\ request.ifRange = Str(<<"W", "/">> \o EntityTag)
    /\ entity.hasFileInfo
    /\ written.specs = <<RangeSpec(0, 1)>>
    /\ written.unit = BytesUnit
    /\ result = SatisfiableNone

\* range() has returned for a request whose If-Range is a strong entity tag
IfRangeStrongTag ==
    /\ rpc = "returned"
    /\ ~request.ifRange.isNull
    /\ request.ifRange.s # <<>>
    /\ Head(request.ifRange.s) = "\""

\* C16: with a strong entity tag in If-Range, the Range header is evaluated
\* only when the entity's bytes were supplied and the tag equals the strong
\* tag computed over them; when the tag differs, or only file metadata was
\* supplied, the result is {ok: true, ranges: null}.
C16_StrongTag ==
    IfRangeStrongTag
        => IF entity.hasFileInfo /\ request.ifRange.s = entity.etag
           THEN result = RangeHeader(request, entity)
           ELSE result = SatisfiableNone

C16_Witness ==
    /\ IfRangeStrongTag
    /\ entity.hasFileInfo
    /\ request.ifRange.s = entity.etag
    /\ written.specs = <<RangeSpec(0, 1)>>
    /\ written.unit = BytesUnit
    /\ result = Satisfiable(<<ByteRange(0, 1)>>)

\* C17: a Range header listing several valid range-specs resolves to one
\* ByteRange for each, in the order written; overlapping and duplicate
\* range-specs are neither merged, dropped nor reordered.
C17_RangesInHeaderOrder ==
    (/\ rpc = "returned"
     /\ request.ifRange.isNull
     /\ ValidRange
     /\ Len(written.specs) >= 2)
        => result = Satisfiable(ParsedRanges)

C17_Witness ==
    /\ rpc = "returned"
    /\ request.ifRange.isNull
    /\ written.specs = <<RangeSpec(1, 1), RangeSpec(0, 1), RangeSpec(1, 1)>>
    /\ entity.size = 2
    /\ result = Satisfiable(<<ByteRange(1, 1), ByteRange(0, 1), ByteRange(1, 1)>>)

\* the chunks of a MultiPartByteRangesStream that are parts: all but the
\* closing boundary
Parts(m) == SelectSeq(m.out, LAMBDA c : c.head # Postscript(m.boundary))

\* the orders of n things
Orders(n) == {p \in [1..n -> 1..n] : \A i, j \in 1..n : p[i] = p[j] => i = j}

\* C18: whatever the order of the ranges given to MultiPartByteRangesStream,
\* its parts come in ascending order of start: the Content-Range lines of the
\* parts emitted so far are those of the given ranges taken in an order in
\* which start never decreases, each range once, and all of them once the
\* stream has closed.
C18_PartsAscending ==
    mp.state # "none"
        => \E p \in Orders(Len(mp.given)) :
            /\ \A i \in 1..(Len(mp.given) - 1) :
                    mp.given[p[i]].start <= mp.given[p[i + 1]].start
            /\ Len(Parts(mp)) <= Len(mp.given)
            /\ \A i \in 1..Len(Parts(mp)) :
                    Parts(mp)[i].head
                        = Preamble(mp.boundary, mp.type, mp.given[p[i]], mp.size)
            /\ mp.state = "closed" => Len(Parts(mp)) = Len(mp.given)

C18_Witness ==
    /\ mp.state = "closed"
    /\ mp.kind = "FsFile"
    /\ mp.given = <<[start |-> 1, end |-> 2], [start |-> 0, end |-> 1]>>
    /\ Len(Parts(mp)) = 2
    /\ Parts(mp)[1].head = Preamble(mp.boundary, mp.type, mp.given[2], mp.size)
    /\ Parts(mp)[2].head = Preamble(mp.boundary, mp.type, mp.given[1], mp.size)

\* responseRange has returned a Response for the one range it was given
SingleReturned == call.pc = "returned" /\ Len(call.ranges) = 1

\* C19: the Response of responseRange for exactly one range has status 206 and
\* statusText `Partial Content` whatever status init carried, Content-Range
\* `bytes {start}-{end}/{size}`, Accept-Ranges `bytes` and Content-Length
\* end-start+1, and a Content-Type that init carried is left as it was: the
\* Content-Type is set only when the response has none.
C19_SingleRangeResponse ==
    SingleReturned
        => LET rng == call.ranges[1]
               headers == response.headers
           IN  /\ response.status = 206
               /\ response.statusText = "Partial Content"
               /\ headers["content-range"]
                    = Str(<<"b", "y", "t", "e", "s", " ">> \o NumToString(rng.start)
                            \o <<"-">> \o NumToString(rng.end)
                            \o <<"/">> \o NumToString(call.size))
               /\ headers["accept-ranges"] = Str(<<"b", "y", "t", "e", "s">>)
               /\ headers["content-length"] = Str(NumToString(rng.end - rng.start + 1))
               /\ HeadersHas(call.init.headers, "content-type")
                    => headers["content-type"] = call.init.headers["content-type"]

C19_Witness ==
    /\ SingleReturned
    /\ call.body.kind = "FsFile"
    /\ call.size = 2
    /\ call.ranges = <<[start |-> 0, end |-> 1]>>
    /\ call.init = ResponseInit(200, "OK", Str(ImagePng))
    /\ call.options.type = TypeOption
    /\ response.status = 206
    /\ response.headers["content-length"] = Str(<<"2">>)
    /\ response.headers["content-type"] = Str(ImagePng)

\* C20: the Response of responseRange for two or more ranges has status 206,
\* the Content-Type `multipart/byteranges; boundary={boundary}` whatever
\* Content-Type init carried, and a Content-Length that is the contentLength
\* of the MultiPartByteRangesStream and, once the body is drained to its
\* close, the number of bytes the body delivered.
C20_MultiRangeResponse ==
    call.pc = "returned" /\ Len(call.ranges) >= 2
        => /\ response.status = 206
           /\ response.headers["content-type"]
                = Str(MultiPartByteRangesType \o mp.boundary)
           /\ response.headers["content-length"] = Str(NumToString(mp.contentLength))
           /\ mp.state = "closed"
                => response.headers["content-length"]
                    = Str(NumToString(EmittedLength(mp.out)))

\* no stream was made and the body source is as it was given
Untouched ==
    /\ lim = NoLimited
    /\ xf = NoTransform
    /\ mp = NoMultiPart
    /\ response = NoResponse
    /\ fsFile \in IF call.body.kind = "FsFile" THEN Files(call.size) ELSE {NoFile}

\* C21: responseRange called with an empty list of ranges throws at the call,
\* before any stream is made and before the body source is sought, read or
\* otherwise touched.
C21_NoRangeThrows ==
    call.pc # "none" /\ call.ranges = <<>>
        => call.pc \in {"call", "threw"} /\ Untouched

C21_Witness ==
    /\ call.pc = "threw"
    /\ call.ranges = <<>>
    /\ call.body.kind = "FsFile"
    /\ fsFile.open
    /\ fsFile.pos = 0

\* C22: responseRange called with a body that is none of the recognised
\* kinds throws a type error at the call, before any streaming, for one
\* range and for several.
C22_InvalidBodyThrows ==
    call.body.kind = "other" /\ call.ranges # <<>>
        => call.pc \in {"call", "threw"} /\ Untouched

\* C23: once the body of a response over a Deno.FsFile, for one range or for
\* several, has been drained to its close, the file has been closed by the
\* stream, once, when autoClose is unset or true, and is still open when
\* autoClose is false.
C23_AutoCloseAfterDrain ==
    (/\ call.pc = "returned"
     /\ call.body.kind = "FsFile"
     /\ lim.state = "closed" \/ mp.state = "closed")
        => IF call.options.autoClose
           THEN ~fsFile.open /\ fsFile.closes = 1
           ELSE fsFile.open /\ fsFile.closes = 0

C23_Witness ==
    /\ call.pc = "returned"
    /\ call.body.kind = "FsFile"
    /\ call.options.autoClose
    /\ mp.state = "closed"
    /\ Len(mp.given) = 2
    /\ ~fsFile.open

\* C24: when the consumer cancels the body of a response over a Deno.FsFile,
\* for one range or for several, before it is drained, the file ends up
\* closed with autoClose and stays open without it.
C24_CancelClosesFile ==
    (/\ call.pc = "returned"
     /\ call.body.kind = "FsFile"
     /\ lim.state = "cancelled" \/ (mp.state = "cancelled" /\ mp.pc = "idle"))
        => fsFile.open = ~call.options.autoClose

\* C25: a type given in the options of responseRange is the content type of
\* the response: the Content-Type header of a response for one range whose
\* init had none, and the Content-Type line of every part of a multipart
\* response, whatever the body is, a Blob with a type of its own included.
C25_TypeOptionWins ==
    call.pc = "returned" /\ call.options.type # <<>> =>
    /\ Len(call.ranges) = 1 /\ ~HeadersHas(call.init.headers, "content-type")
        => response.headers["content-type"] = Str(call.options.type)
    /\ Len(call.ranges) > 1
        => \A i \in 1..Len(Parts(mp)) :
            \E j \in 1..Len(call.ranges) :
                Parts(mp)[i].head
                    = Preamble(mp.boundary, call.options.type, call.ranges[j], call.size)

\* C26: range() is a pure function of the request headers and the entity
\* metadata: any two calls made with the same request and the same entity,
\* whatever calls were made before or between them, gave the same result.
C26_RangeIsPure ==
    \A i, j \in 1..Len(calls) :
        calls[i][1] = calls[j][1] /\ calls[i][2] = calls[j][2]
            => calls[i][3] = calls[j][3]

C26_Witness ==
    /\ Len(calls) = 3
    /\ calls[1][1] = calls[3][1]
    /\ calls[1][2] = calls[3][2]
    /\ calls[2][1] # calls[1][1]
    /\ calls[1][1].ifRange = Str(EntityTag)
    /\ calls[3][3] = Satisfiable(<<ByteRange(0, 1)>>)

\* C27: every ByteRange of an ok: true result of range(), for every Range
\* header and every size, has integer start and end with
\* 0 <= start <= end < size.
C27_RangesWithinEntity ==
    rpc = "returned" /\ result.ok /\ ~result.isNull
        => \A i \in 1..Len(result.ranges) :
            LET r == result.ranges[i]
            IN  /\ ~r.start.nan
                /\ ~r.end.nan
                /\ 0 <= r.start.v
                /\ r.start.v <= r.end.v
                /\ r.end.v < entity.size

\* the ranges given to the MultiPartByteRangesStream are strictly ascending
\* and do not overlap
Ascending(ranges) ==
    \A i \in 1..(Len(ranges) - 1) : ranges[i].end < ranges[i + 1].start

\* C28: over a ReadableStream source and ranges that are strictly ascending
\* and do not overlap, for every partition of the source into chunks, the
\* payload of each part is exactly the source bytes start..end of its range.
C28_StreamPartsExact ==
    mp.kind = "ReadableStream" /\ Ascending(mp.given)
        => \A i \in 1..Len(Parts(mp)) :
            Parts(mp)[i].bytes = SourceBytes(mp.given[i].start, mp.given[i].end)

\* the i-th range in ascending order of start begins at or before the end of
\* a range emitted before it
Behind(sorted, i) == \E k \in 1..(i - 1) : sorted[i].start <= sorted[k].end

\* C29: over a ReadableStream source, a part whose range begins before the
\* position the stream has reached, because ranges overlap or repeat, is
\* never emitted with a payload other than the source bytes start..end of
\* its range.
C29_NoCorruptPart ==
    mp.kind = "ReadableStream"
        => \A i \in 1..Len(Parts(mp)) :
            Behind(SortRanges(mp.given), i)
                => Parts(mp)[i].bytes
                    = SourceBytes(SortRanges(mp.given)[i].start,
                                  SortRanges(mp.given)[i].end)

\* the ranges, in ascending order of start, that reach beyond the last byte
\* of the source
Short(m) ==
    {i \in 1..Len(m.given) : SortRanges(m.given)[i].end >= m.srcLen}

\* C30: over a ReadableStream source that ends before the byte at the end of
\* a range, whatever the shortfall, one byte included, no part is emitted for
\* that range and the stream does not close: it ends with an error.
C30_ShortSourceFails ==
    mp.kind = "ReadableStream"
        => \A i \in Short(mp) : Len(Parts(mp)) < i /\ mp.state # "closed"

\* C31: a RangeByteTransformStream whose upstream ends before the byte at
\* offset end has been delivered does not end normally (closed with its
\* upstream, or terminated) with fewer than end - start + 1 bytes: it ends
\* with an error.
C31_ShortUpstreamFails ==
    xf.state # "none" /\ xf.srcLen <= xf.end
        => xf.state \notin {"closed", "terminated"}

\* the stream of asLimitedReadableStream is at a seek that will not land on
\* start
LimitedSeekFails == lim.state = "new" /\ seek(fsFile, lim.start).pos # lim.start
\* it is at a read that will report the end of the file
LimitedReadFails == lim.state = "readable" /\ fsFile.pos >= fsFile.size
\* the same for readRange of a MultiPartByteRangesStream over a file
MultiSeekFails ==
    mp.kind = "FsFile" /\ mp.pc = "seek" /\ seek(fsFile, mp.range.start).pos # mp.range.start
MultiReadFails == mp.kind = "FsFile" /\ mp.pc = "read" /\ fsFile.pos >= fsFile.size

\* C32: in asLimitedReadableStream and in readRange of the multipart stream,
\* a seek that does not land on range.start, or a read that reports the end
\* of the file before end - start + 1 bytes were read, errors the stream (one
\* cancelled meanwhile stays cancelled) without emitting anything; once the
\* stream is errored the file is neither sought nor read again and no chunk
\* is emitted any more.
C32_FileFailureIsFatal ==
    [][/\ (LimitedSeekFails \/ LimitedReadFails) /\ lim' # lim
            => /\ lim'.state \in {"errored", "cancelled"}
               /\ lim'.out = lim.out
       /\ (MultiSeekFails \/ MultiReadFails) /\ mp' # mp /\ mp'.pc # mp.pc
            => /\ mp'.state = (IF mp.state = "cancelled" THEN "cancelled" ELSE "errored")
               /\ mp'.out = mp.out
       /\ lim.state = "errored" \/ mp.state = "errored"
            => UNCHANGED <<lim, mp, fsFile>>]_vars

\* a range of a multipart response over a file that has lost its last byte
\* has failed at the end of the file, after a part was emitted and a byte of
\* the failed part was read
C32_Witness ==
    /\ call.pc = "returned"
    /\ mp.kind = "FsFile"
    /\ mp.state = "errored"
    /\ Len(Parts(mp)) = 1
    /\ mp.range.end >= fsFile.size
    /\ mp.read > 0

\* the first n chunks m has emitted are, one for one and in ascending order
\* of start, the preambles of its first n ranges, each followed by the source
\* bytes start..end of its range
PartPerPull(m, n) ==
    /\ Len(m.out) >= n
    /\ \A i \in 1..n :
        LET r == SortRanges(m.given)[i]
        IN  /\ m.out[i].head = Preamble(m.boundary, m.type, r, m.size)
            /\ m.out[i].bytes = SourceBytes(r.start, r.end)

\* C33: a MultiPartByteRangesStream over N ranges emits one chunk per pull:
\* between pulls it has emitted as many chunks as it has taken ranges, the
\* i-th being the preamble of the i-th range in ascending order of start
\* followed by the bytes of that range; a stream that has closed has emitted
\* exactly N + 1 chunks, the last one the postscript, emitted by the pull
\* that closed it.
C33_OneChunkPerPull ==
    LET n == Len(mp.given)
        taken == n - Len(mp.ranges)
    IN  /\ mp.state = "readable" /\ mp.pc = "idle"
            => Len(mp.out) = taken /\ PartPerPull(mp, taken)
        /\ mp.state = "readable" /\ mp.pc # "idle"
            => Len(mp.out) = taken - 1 /\ PartPerPull(mp, taken - 1)
        /\ mp.state = "closed"
            => /\ Len(mp.out) = n + 1
               /\ PartPerPull(mp, n)
               /\ mp.out[n + 1] = [head |-> Postscript(mp.boundary), bytes |-> <<>>]

\* C34: a MultiPartByteRangesStream emits a part in one piece. While the
\* bytes of a range are being obtained nothing of its part is out yet; a
\* step that emits adds exactly one chunk, the postscript or the preamble of
\* the range together with its payload, and ends the pull; a pull whose
\* read fails, or whose stream was cancelled while it read, emits nothing.
C34_PartsAtomic ==
    /\ [](mp.pc # "idle" => Len(mp.out) < Len(mp.given) - Len(mp.ranges))
    /\ [][/\ mp'.out # mp.out
            => /\ mp.state = "readable"
               /\ mp'.state \in {"readable", "closed"}
               /\ mp'.pc = "idle"
               /\ Len(mp'.out) = Len(mp.out) + 1
               /\ SubSeq(mp'.out, 1, Len(mp.out)) = mp.out
               /\ LET c == mp'.out[Len(mp'.out)]
                  IN  IF mp'.state = "closed"
                      THEN c = [head |-> Postscript(mp.boundary), bytes |-> <<>>]
                      ELSE c.head = Preamble(mp.boundary, mp.type, mp'.range, mp.size)
          /\ mp'.state = "errored" \/ mp.state = "cancelled"
            => mp'.out = mp.out]_vars

\* a multipart body over a stream was cancelled while its second range was
\* being read; the read went on to its end and no part was emitted for it
C34_Witness ==
    /\ call.pc = "returned"
    /\ mp.kind = "ReadableStream"
    /\ mp.state = "cancelled"
    /\ mp.pc = "idle"
    /\ mp.read > 0
    /\ Len(mp.ranges) = 0
    /\ Len(mp.out) = 1

\* C35: every byte a RangeByteTransformStream emits comes from a source
\* offset in start..end and it emits end - start + 1 bytes at most; once the
\* byte at offset end is out the stream is terminated, by the transform call
\* that emitted it, and a terminated stream takes no further chunk of its
\* upstream.
C35_TransformWithinRange ==
    /\ [](LET out == concat(xf.out)
          IN  /\ \A i \in 1..Len(out) : out[i] \in (xf.start + 1)..(xf.end + 1)
              /\ Len(out) <= xf.end - xf.start + 1
              /\ (\E i \in 1..Len(out) : out[i] = xf.end + 1)
                    => xf.state = "terminated")
    /\ [][xf.state = "terminated" => xf' = xf]_vars

\* the stream terminated with the byte at offset end although its upstream
\* still had bytes to deliver
C35_Witness ==
    /\ xf.state = "terminated"
    /\ xf.start = 1
    /\ xf.end = 3
    /\ concat(xf.out) = SourceBytes(1, 3)
    /\ xf.srcPos < xf.srcLen

\* bytes holds a byte read from the file at an offset outside start..end
Foreign(bytes, start, end) ==
    \E i \in 1..Len(bytes) : bytes[i] # 0 /\ bytes[i] \notin (start + 1)..(end + 1)

\* the stream of asLimitedReadableStream has emitted a byte that is not of
\* its range
LimitedForeign == Foreign(concat(lim.out), lim.start, lim.end)

\* the multipart stream has emitted a part with a byte that is not of the
\* range of that part
MultiForeign ==
    \E i \in 1..Len(Parts(mp)) :
        Foreign(Parts(mp)[i].bytes, SortRanges(mp.given)[i].start,
                SortRanges(mp.given)[i].end)

\* C36: two extraction streams over one file handle share its position. A
\* stream emits bytes that are not of its own range only after the other
\* stream has sought or read on the handle in between (and there is an
\* interleaving of their pulls in which it does: C36_Witness).
C36_ForeignOnlyWhenShared ==
    /\ LimitedForeign => Len(mp.ranges) < Len(mp.given)
    /\ MultiForeign => lim.state # "new"

\* the stream for range 0-0 has emitted the byte at offset 1, which the
\* multipart stream for range 1-1 had sought to before the pull
C36_Witness ==
    /\ lim.start = 0
    /\ lim.end = 0
    /\ mp.given = <<[start |-> 1, end |-> 1]>>
    /\ lim.out = <<Bytes(1, 1)>>
    /\ LimitedForeign

\* C37: with a typed-array view as body, whatever its byteOffset in the
\* underlying buffer, the body of a response for one range is the bytes
\* start..end of the view, and so is the payload of every part of a
\* response for several ranges.
C37_ViewBytes ==
    call.pc = "returned" /\ call.body.kind = "view" =>
    /\ Len(call.ranges) = 1
        => response.body.bytes = SourceBytes(call.ranges[1].start, call.ranges[1].end)
    /\ Len(call.ranges) > 1
        => \A i \in 1..Len(Parts(mp)) :
            Parts(mp)[i].bytes = SourceBytes(SortRanges(call.ranges)[i].start,
                                             SortRanges(call.ranges)[i].end)

\* C38: the stream of a response over a Deno.FsFile closes the file once at
\* most, and only with autoClose, and only when the stream itself has closed
\* after its last chunk (the last bytes of the range, or the postscript that
\* follows every part); a stream that has errored on a failed seek or at the
\* end of the file, and one still being read, leave the file open.
C38_CloseOnceOnSuccess ==
    call.pc = "returned" /\ call.body.kind = "FsFile" =>
    /\ fsFile.closes <= 1
    /\ fsFile.open = (fsFile.closes = 0)
    /\ fsFile.closes = 1
        => /\ call.options.autoClose
           /\ \/ /\ lim.state = "closed"
                 /\ lim.read >= lim.end - lim.start + 1
                 /\ lim.out # <<>>
              \/ /\ mp.state = "closed"
                 /\ Len(mp.out) = Len(mp.given) + 1
                 /\ mp.out[Len(mp.out)].head = Postscript(mp.boundary)
    /\ lim.state \in {"new", "readable", "errored"} /\ mp.state = "none"
        => fsFile.closes = 0
    /\ mp.state \in {"readable", "errored"} => fsFile.closes = 0

\* a stream over a file that has lost its last byte has emitted a chunk and
\* then errored at the end of the file: the file is left open although
\* autoClose is set
C38_Witness ==
    /\ call.pc = "returned"
    /\ call.options.autoClose
    /\ lim.state = "errored"
    /\ Len(lim.out) = 1
    /\ fsFile.open
    /\ fsFile.pos = fsFile.size

\* C39: with no If-Range, a `bytes=` header of two or more range-specs of
\* the grammar resolves to {ok: false, ranges: null}, whatever the specs and
\* the size, when a comma with no white space after it stands between them
\* (`0-1,0-1`, `0-1 ,0-1`): the specs are not told apart. Written with a
\* comma and white space after it, valid specs give one range each.
C39_BareCommaDoesNotSeparate ==
    (/\ rpc = "returned"
     /\ request.ifRange.isNull
     /\ ~written.isNull
     /\ written.unit = BytesUnit
     /\ written.eq
     /\ Len(written.specs) >= 2
     /\ \A i \in 1..Len(written.specs) : written.specs[i].form # "junk")
        => IF Splits(written.sep)
           THEN (\A i \in 1..Len(written.specs) : ValidSpec(written.specs[i], entity.size))
                    => result = Satisfiable(ParsedRanges)
           ELSE result = Unsatisfiable

\* `bytes=0-1,1-2` for an entity of 3 bytes, both specs valid
C39_Witness ==
    /\ rpc = "returned"
    /\ request.ifRange.isNull
    /\ written.unit = BytesUnit
    /\ written.specs = <<RangeSpec(0, 1), RangeSpec(1, 2)>>
    /\ written.sep = <<",">>
    /\ entity.size = 3
    /\ result = Unsatisfiable

\* range() has returned for an If-Range value in which ETAG_RE finds no
\* entity tag and which is not a date, the entity having a modification time
IfRangeNeither ==
    /\ rpc = "returned"
    /\ ~request.ifRange.isNull
    /\ request.ifRange.s # <<>>
    /\ ETAG_RE_exec(request.ifRange.s) = <<>>
    /\ Head(request.ifRange.s) # "@"
    /\ ~entity.mtime.isNull

\* C40: an If-Range value that holds no entity tag and is not a parsable
\* date, for an entity that has a modification time, does not make range()
\* answer {ok: true, ranges: null}: the result is the one the same request
\* gets without If-Range, the parsed ranges when the Range header is valid.
C40_UnparsableIfRangePasses ==
    IfRangeNeither
        => /\ result = range(Request(written, Null), entity)
           /\ result = SatisfiableNone => written.isNull
           /\ ValidRange => result = Satisfiable(ParsedRanges)

C40_Witness ==
    /\ IfRangeNeither
    /\ request.ifRange = Str(<<"x">>)
    /\ entity.mtime = [isNull |-> FALSE, ms |-> 1500]
    /\ written.specs = <<RangeSpec(0, 1)>>
    /\ result = Satisfiable(<<ByteRange(0, 1)>>)

====
